---- MODULE Spec2Model ----
(***************************************************************************)
(* Invariant Kernel: Merkle identity hashing, invariant metrics and the    *)
(* two crystallizers (brute force and HNSW), modelled from                 *)
(* src/kernel/src/{merkle,start_crystal,hnsw_crystal}.rs.                  *)
(*                                                                         *)
(* Conventions                                                             *)
(*  - A string is the sequence of its bytes (ASCII values).                *)
(*  - SHA-256 is an injective tagged constructor: a digest is represented  *)
(*    by the message that was hashed.                                      *)
(*  - Machine integers (usize, u32, u64) are little-endian sequences of    *)
(*    base-256 limbs, so that they keep their width.                       *)
(*  - f32 values are small integers, on which f32 arithmetic is exact.     *)
(***************************************************************************)
EXTENDS Integers, Sequences, FiniteSets, Bags, TLC

VARIABLES
    pc,          \* position of the caller: "idle", a running phase, "returned", "panicked"
    fn,          \* the kernel function being called
    args,        \* its arguments
    ret,         \* its return value
    partOut,     \* crystallizers: output of each parallel partition (outer index)
    finishOrder, \* crystallizers: the order in which the partitions finished
    hnsw         \* crystallize_hnsw: the search behaviour of the built index

vars == <<pc, fn, args, ret, partOut, finishOrder, hnsw>>

----------------------------------------------------------------------------
(* Bounds of the model *)

\* longest token / metrics body string
MaxStrLen == 2
\* longest u, v, rel of a bond
MaxBondLen == 1

\* byte values the token strings are drawn from: NUL, SOH, ':' and 'a'
TokenBytes == {0, 1, 58, 97}
\* byte values the bond strings are drawn from: ':' and 'a'
BondBytes == {58, 97}

StringsOver(alphabet, maxlen) == UNION {[1..n -> alphabet] : n \in 0..maxlen}
TokenStrings == StringsOver(TokenBytes, MaxStrLen)
BondStrings == StringsOver(BondBytes, MaxBondLen)

----------------------------------------------------------------------------
(* Library primitives *)

\* sha2::Sha256 over a message, as an injective constructor
Sha256(msg) == <<"sha256", msg>>
\* hex::encode, injective on byte arrays
HexEncode(bytes) == <<"hex", bytes>>
\* &result[..8]: the first 8 bytes of a digest
First8(digest) == <<"first8", digest>>

----------------------------------------------------------------------------
(* merkle.rs: tree encoding *)

hash_origin == Sha256(<<0>>)

hash_dyad(left, right) == Sha256(<<1, left, right>>)

encode_bit_const(bit) == hash_origin

encode_bit(bit) ==
    IF bit = 0 THEN hash_origin
    ELSE hash_dyad(hash_origin, hash_origin)

ByteBits == 8

\* (byte_val >> i) & 1
BitAt(byte_val, i) == (byte_val \div (2 ^ i)) % 2

\* the body of `for i in 0..8`, from iteration i on
RECURSIVE encode_byte_loop(_, _, _)
encode_byte_loop(byte_val, i, chain) ==
    IF i >= ByteBits THEN chain
    ELSE encode_byte_loop(byte_val, i + 1,
                          hash_dyad(encode_bit(BitAt(byte_val, i)), chain))

encode_byte(byte_val) == encode_byte_loop(byte_val, 0, hash_origin)

\* the body of `for &b in s.iter().rev()`: k is the position still to visit
RECURSIVE encode_string_loop(_, _, _)
encode_string_loop(s, k, chain) ==
    IF k = 0 THEN chain
    ELSE encode_string_loop(s, k - 1, hash_dyad(encode_byte(s[k]), chain))

\* the bytes visited first to last, without .rev()
RECURSIVE encode_string_forward_loop(_, _, _)
encode_string_forward_loop(s, k, chain) ==
    IF k > Len(s) THEN chain
    ELSE encode_string_forward_loop(s, k + 1, hash_dyad(encode_byte(s[k]), chain))

encode_string_forward(s) == encode_string_forward_loop(s, 1, hash_origin)

encode_string(s) == encode_string_loop(s, Len(s), hash_origin)

get_token_hash_hex(s) == HexEncode(encode_string(s))

\* format!("{}:{}:{}", u, rel, v)
BondRaw(u, v, rel) == u \o <<58>> \o rel \o <<58>> \o v

bond_id(u, v, rel) == HexEncode(First8(Sha256(BondRaw(u, v, rel))))

----------------------------------------------------------------------------
(* Fixed-width machine integers as little-endian base-256 limbs *)

LimbBase == 256
UsizeLimbs == 8
U32Limbs == 4
U64Limbs == 8

RECURSIVE ToLimbs(_, _)
ToLimbs(n, w) ==
    IF w = 0 THEN <<>> ELSE <<n % LimbBase>> \o ToLimbs(n \div LimbBase, w - 1)

ZeroExt(a, w) == a \o [i \in 1..(w - Len(a)) |-> 0]
Truncate(a, w) == SubSeq(a, 1, w)
Overflowed(a, w) == \E i \in (w + 1)..Len(a) : a[i] # 0

\* a + b, one limb longer than the operands (Len(a) = Len(b))
RECURSIVE AddFrom(_, _, _, _)
AddFrom(a, b, i, c) ==
    IF i > Len(a) THEN <<c>>
    ELSE LET t == a[i] + b[i] + c
         IN <<t % LimbBase>> \o AddFrom(a, b, i + 1, t \div LimbBase)
LimbAdd(a, b) == AddFrom(a, b, 1, 0)

\* a * k for a small factor k, one limb longer than a
RECURSIVE MulFrom(_, _, _, _)
MulFrom(a, k, i, c) ==
    IF i > Len(a) THEN <<c>>
    ELSE LET t == a[i] * k + c
         IN <<t % LimbBase>> \o MulFrom(a, k, i + 1, t \div LimbBase)
LimbMulSmall(a, k) == MulFrom(a, k, 1, 0)

LimbAddSmall(a, k) == LimbAdd(a, ToLimbs(k, Len(a)))

\* u64::wrapping_mul: schoolbook product, every partial sum cut to 64 bits
RECURSIVE WrappingMulFrom(_, _, _, _)
WrappingMulFrom(a, b, i, acc) ==
    IF i > Len(b) THEN acc
    ELSE LET partial == Truncate([j \in 1..(i - 1) |-> 0] \o LimbMulSmall(a, b[i]),
                                 U64Limbs)
         IN WrappingMulFrom(a, b, i + 1, Truncate(LimbAdd(acc, partial), U64Limbs))
wrapping_mul(a, b) == WrappingMulFrom(a, b, 1, ToLimbs(0, U64Limbs))

\* 0x517cc1b727220a95, least significant byte first
ShapeMultiplier == <<149, 10, 34, 39, 183, 193, 124, 81>>

----------------------------------------------------------------------------
(* merkle.rs: get_invariant_metrics *)

\* A metrics input string is `pad` copies of PadByte followed by `body`; pad
\* is a usize.  Strings too long to enumerate have a non-zero pad.
PadByte == 122

MetricPads ==
    { ToLimbs(0, UsizeLimbs),
      <<255, 255, 255, 127, 0, 0, 0, 0>>,      \* 2^31 - 1
      <<0, 0, 0, 128, 0, 0, 0, 0>>,            \* 2^31
      <<255, 255, 255, 255, 0, 0, 0, 0>> }     \* 2^32 - 1

MetricStrings == [pad : MetricPads, body : TokenStrings]

IsShort(s) == s.pad = ToLimbs(0, UsizeLimbs)

\* the build decides what an arithmetic overflow does: overflow checks on
\* (panic) or off (wrap)
Builds == {"debug", "release"}

\* bytes.len(), a usize
StrLen(s) == Truncate(LimbAddSmall(s.pad, Len(s.body)), UsizeLimbs)

\* bytes.len() as u32
LenU32(s) == Truncate(StrLen(s), U32Limbs)

\* a u32 operation: its wrapped value and whether it overflowed
U32Result(full) == [val |-> Truncate(full, U32Limbs), ovf |-> Overflowed(full, U32Limbs)]
U32Mul(a, k) == U32Result(LimbMulSmall(a, k))
U32Add(a, k) == U32Result(LimbAddSmall(a, k))

\* b"shape:"
ShapeTag == <<115, 104, 97, 112, 101, 58>>

\* u64::from_le_bytes(hash[0..8])
U64FromLeBytes(digest) == <<"u64_le", First8(digest)>>

AtomicWeightFactor == 2
BitWeightFactor == 17
BitLeavesFactor == 9

Metrics(build, overflow, value) ==
    IF build = "debug" /\ overflow THEN [status |-> "panic", val |-> <<>>]
    ELSE [status |-> "ok", val |-> value]

get_invariant_metrics(s, atomic, build) ==
    LET len == LenU32(s) IN
    IF atomic THEN
        LET weight == U32Mul(len, AtomicWeightFactor)
            depth == len
            leaves == U32Add(len, 1)
            shape_hash == wrapping_mul(ZeroExt(len, U64Limbs), ShapeMultiplier)
        IN Metrics(build, weight.ovf \/ leaves.ovf,
                   <<weight.val, depth, leaves.val, shape_hash>>)
    ELSE
        LET weight == U32Mul(len, BitWeightFactor)
            depth == U32Add(len, ByteBits)
            leaves9 == U32Mul(len, BitLeavesFactor)
            leaves == U32Add(leaves9.val, 1)
            shape_hash == U64FromLeBytes(Sha256(<<ShapeTag, s>>))
        IN Metrics(build, weight.ovf \/ depth.ovf \/ leaves9.ovf \/ leaves.ovf,
                   <<weight.val, depth.val, leaves.val, shape_hash>>)

----------------------------------------------------------------------------
(* The caller: one synchronous call at a time *)

NoArgs == <<>>

Idle ==
    /\ pc = "idle"
    /\ fn = "none"
    /\ args = NoArgs
    /\ ret = <<>>
    /\ partOut = <<>>
    /\ finishOrder = <<>>
    /\ hnsw = <<>>

Init == Idle

CallTokenHash(s) ==
    /\ pc = "idle"
    /\ fn' = "get_token_hash_hex"
    /\ args' = [s |-> s]
    /\ ret' = get_token_hash_hex(s)
    /\ pc' = "returned"
    /\ UNCHANGED <<partOut, finishOrder, hnsw>>

CallBondId(u, v, rel) ==
    /\ pc = "idle"
    /\ fn' = "bond_id"
    /\ args' = [u |-> u, v |-> v, rel |-> rel]
    /\ ret' = bond_id(u, v, rel)
    /\ pc' = "returned"
    /\ UNCHANGED <<partOut, finishOrder, hnsw>>

CallMetrics(s, atomic, build) ==
    /\ pc = "idle"
    /\ fn' = "get_invariant_metrics"
    /\ args' = [s |-> s, atomic |-> atomic]
    /\ LET m == get_invariant_metrics(s, atomic, build)
       IN /\ ret' = m.val
          /\ pc' = IF m.status = "ok" THEN "returned" ELSE "panicked"
    /\ UNCHANGED <<partOut, finishOrder, hnsw>>

\* the caller drops the result; the kernel keeps no state between calls
Return ==
    /\ pc \in {"returned", "panicked"}
    /\ pc' = "idle"
    /\ fn' = "none"
    /\ args' = NoArgs
    /\ ret' = <<>>
    /\ partOut' = <<>>
    /\ finishOrder' = <<>>
    /\ hnsw' = <<>>

\* the inputs are enumerated only where a call can start
NextMerkle ==
    \/ pc = "idle" /\ \E s \in TokenStrings : CallTokenHash(s)
    \/ pc = "idle" /\ \E u \in BondStrings, v \in BondStrings, rel \in BondStrings :
                         CallBondId(u, v, rel)
    \/ pc = "idle" /\ \E s \in MetricStrings, atomic \in BOOLEAN, build \in Builds :
                         CallMetrics(s, atomic, build)
    \/ Return

SpecMerkle == Init /\ [][NextMerkle]_vars

----------------------------------------------------------------------------
(* Crystallizer inputs.  Every vector has Dim components, all zero but at   *)
(* most one, so that dot products and cosines are small integers.          *)

Dim == 2
\* largest collection given to compute_correlations_parallel
MaxN == 3
\* largest collection given to crystallize_hnsw
MaxHnswN == 2
\* largest top_k
MaxTopK == 1

VecScales == {-1, 1, 2}
\* a threshold some similarities equal, some exceed and some stay below
Thresholds == {0, 1}

AxisVec(d, c) == [k \in 1..Dim |-> IF k = d THEN c ELSE 0]
NonZeroVecs == {AxisVec(d, c) : d \in 1..Dim, c \in VecScales}
ZeroVec == [k \in 1..Dim |-> 0]
VecValues == NonZeroVecs \cup {ZeroVec}

Collections(values, maxn) == UNION {[1..n -> values] : n \in 0..maxn}

\* vectors[i] of the source, i counted from 0
At(vectors, i) == vectors[i + 1]

MinOf(a, b) == IF a <= b THEN a ELSE b

\* v1.iter().zip(v2.iter()).map(|(a, b)| a * b).sum()
RECURSIVE DotFrom(_, _, _)
DotFrom(v1, v2, k) ==
    IF k > MinOf(Len(v1), Len(v2)) THEN 0
    ELSE v1[k] * v2[k] + DotFrom(v1, v2, k + 1)
Dot(v1, v2) == DotFrom(v1, v2, 1)

EdgeResult(i, j, score) == [source_idx |-> i, target_idx |-> j, score |-> score]

----------------------------------------------------------------------------
(* start_crystal.rs: compute_correlations_parallel *)

\* the inner filter_map over j, from index j on
RECURSIVE ScanFrom(_, _, _, _)
ScanFrom(vectors, i, j, threshold) ==
    IF j >= Len(vectors) THEN <<>>
    ELSE LET dot == Dot(At(vectors, i), At(vectors, j))
         IN (IF dot > threshold THEN <<EdgeResult(i, j, dot)>> ELSE <<>>)
            \o ScanFrom(vectors, i, j + 1, threshold)

\* .skip(i) in place of .skip(i + 1)
inner_scan_skip_i(vectors, i, threshold) == ScanFrom(vectors, i, i, threshold)

\* the closure given to flat_map: partition i scans every j > i
inner_scan(vectors, i, threshold) == ScanFrom(vectors, i, i + 1, threshold)

\* the partitions (outer indices) of a collection
Partitions(vectors) == 0..(Len(vectors) - 1)

Finished == {finishOrder[k] : k \in DOMAIN finishOrder}

\* a join that waits for one partition only
SomeJoined(vectors, order) == Len(order) >= 1

\* collect() returns once every partition of the parallel iterator has ended
AllJoined(vectors, order) == Len(order) = Len(vectors)

RECURSIVE ConcatFrom(_, _)
ConcatFrom(outs, i) ==
    IF i > Len(outs) THEN <<>> ELSE outs[i] \o ConcatFrom(outs, i + 1)

RECURSIVE ConcatInOrder(_, _, _)
ConcatInOrder(outs, order, k) ==
    IF k > Len(order) THEN <<>>
    ELSE outs[order[k] + 1] \o ConcatInOrder(outs, order, k + 1)

\* a collector that appends each partition's edges as the partition ends
collect_as_finished(outs, order) == ConcatInOrder(outs, order, 1)

\* rayon's collect() into a Vec: the partitions' outputs are joined in the
\* order of the iterator, whatever the order the workers ended in
par_collect(outs, order) == ConcatFrom(outs, 1)

CallExact(vectors, threshold) ==
    /\ pc = "idle"
    /\ fn' = "compute_correlations_parallel"
    /\ args' = [vectors |-> vectors, threshold |-> threshold]
    /\ partOut' = [i \in 1..Len(vectors) |-> <<>>]
    /\ finishOrder' = <<>>
    /\ ret' = <<>>
    /\ pc' = IF vectors = <<>> THEN "returned" ELSE "running"
    /\ UNCHANGED hnsw

RunPartition(i) ==
    /\ pc = "running"
    /\ i \in Partitions(args.vectors) \ Finished
    /\ partOut' = [partOut EXCEPT ![i + 1] = inner_scan(args.vectors, i, args.threshold)]
    /\ finishOrder' = Append(finishOrder, i)
    /\ UNCHANGED <<pc, fn, args, ret, hnsw>>

Collect ==
    /\ pc = "running"
    /\ AllJoined(args.vectors, finishOrder)
    /\ ret' = par_collect(partOut, finishOrder)
    /\ pc' = "returned"
    /\ UNCHANGED <<fn, args, partOut, finishOrder, hnsw>>

NextExact ==
    \/ pc = "idle" /\ \E vectors \in Collections(VecValues, MaxN), threshold \in Thresholds :
                         CallExact(vectors, threshold)
    \/ pc = "running" /\ \E i \in Partitions(args.vectors) : RunPartition(i)
    \/ Collect
    \/ Return

SpecExact == Init /\ [][NextExact]_vars

----------------------------------------------------------------------------
(* hnsw_crystal.rs: crystallize_hnsw *)
(* The construction parameters of the index (connections, layers,          *)
(* ef_construction) shape the graph but not the contract of a search, and   *)
(* are not modelled.  The indexed vectors are non-zero.                     *)

\* the integer square root of a perfect square
ISqrt(n) == CHOOSE r \in 0..n : r * r = n

\* hnsw_rs DistCosine on non-zero vectors: 1 - dot / (|a| |b|)
DistCosine(a, b) == 1 - (Dot(a, b) \div ISqrt(Dot(a, a) * Dot(b, b)))

Neighbour(d_id, distance) == [d_id |-> d_id, distance |-> distance]

\* The built index is searched without randomness: a search is a function of
\* the index and of the query vector alone.  The collections are smaller than
\* the search breadth, so a search ranks every inserted point; points at the
\* same distance come in the order `index` fixed when they were inserted.
RankIn(index, id) == CHOOSE k \in DOMAIN index : index[k] = id

Nearer(vectors, index, query_vec, a, b) ==
    LET da == DistCosine(query_vec, At(vectors, a))
        db == DistCosine(query_vec, At(vectors, b))
    IN da < db \/ (da = db /\ RankIn(index, a) < RankIn(index, b))

RECURSIVE SearchFrom(_, _, _, _, _)
SearchFrom(vectors, index, query_vec, knbn, candidates) ==
    IF knbn = 0 \/ candidates = {} THEN <<>>
    ELSE LET best == CHOOSE a \in candidates :
                        \A b \in candidates \ {a} : Nearer(vectors, index, query_vec, a, b)
         IN <<Neighbour(best, DistCosine(query_vec, At(vectors, best)))>>
            \o SearchFrom(vectors, index, query_vec, knbn - 1, candidates \ {best})

\* hnsw.search(query_vec, knbn, ef_search): the knbn nearest points
search(vectors, index, query_vec, knbn) ==
    SearchFrom(vectors, index, query_vec, knbn, Partitions(vectors))

\* the orders parallel_insert can leave equidistant points in
InsertOrders(vectors) ==
    {o \in [1..Len(vectors) -> Partitions(vectors)] :
        \A a, b \in DOMAIN o : a # b => o[a] # o[b]}

\* a filter that keeps the query's own point
RECURSIVE FilterKeepSelf(_, _, _, _)
FilterKeepSelf(i, neighbours, k, threshold) ==
    IF k > Len(neighbours) THEN <<>>
    ELSE LET j == neighbours[k].d_id
             sim == 1 - neighbours[k].distance
         IN (IF sim > threshold THEN <<EdgeResult(i, j, sim)>> ELSE <<>>)
            \o FilterKeepSelf(i, neighbours, k + 1, threshold)

\* the filter_map over the neighbours of vector i, from the k-th on
RECURSIVE FilterNeighbours(_, _, _, _)
FilterNeighbours(i, neighbours, k, threshold) ==
    IF k > Len(neighbours) THEN <<>>
    ELSE LET j == neighbours[k].d_id
             sim == 1 - neighbours[k].distance
         IN (IF i # j /\ sim > threshold THEN <<EdgeResult(i, j, sim)>> ELSE <<>>)
            \o FilterNeighbours(i, neighbours, k + 1, threshold)

\* let search_k = top_k + 1
SearchK(top_k) == top_k + 1

\* What the built index answers to the queries of the call.  A search sees
\* the query vector only, never the query's position i: equal vectors get
\* equal answers.
SearchTable(vectors, index, knbn) ==
    [i \in Partitions(vectors) |-> search(vectors, index, At(vectors, i), knbn)]

\* the closure given to flat_map: the edges of vector i
hnsw_partition(table, i, threshold) == FilterNeighbours(i, table[i], 1, threshold)

CallHnsw(vectors, threshold, top_k) ==
    /\ pc = "idle"
    /\ fn' = "crystallize_hnsw"
    /\ args' = [vectors |-> vectors, threshold |-> threshold, top_k |-> top_k]
    /\ partOut' = [i \in 1..Len(vectors) |-> <<>>]
    /\ finishOrder' = <<>>
    /\ ret' = <<>>
    /\ pc' = IF vectors = <<>> THEN "returned" ELSE "inserting"
    /\ UNCHANGED hnsw

\* hnsw.parallel_insert(&data_for_insert)
ParallelInsert(index) ==
    /\ pc = "inserting"
    /\ hnsw' = SearchTable(args.vectors, index, SearchK(args.top_k))
    /\ pc' = "searching"
    /\ UNCHANGED <<fn, args, ret, partOut, finishOrder>>

SearchPartition(i) ==
    /\ pc = "searching"
    /\ i \in Partitions(args.vectors) \ Finished
    /\ partOut' = [partOut EXCEPT
                     ![i + 1] = hnsw_partition(hnsw, i, args.threshold)]
    /\ finishOrder' = Append(finishOrder, i)
    /\ UNCHANGED <<pc, fn, args, ret, hnsw>>

CollectHnsw ==
    /\ pc = "searching"
    /\ AllJoined(args.vectors, finishOrder)
    /\ ret' = par_collect(partOut, finishOrder)
    /\ pc' = "returned"
    /\ UNCHANGED <<fn, args, partOut, finishOrder, hnsw>>

NextHnsw ==
    \/ pc = "idle" /\ \E vectors \in Collections(NonZeroVecs, MaxHnswN),
                         threshold \in Thresholds, top_k \in 0..MaxTopK :
                         CallHnsw(vectors, threshold, top_k)
    \/ pc = "inserting" /\ \E index \in InsertOrders(args.vectors) : ParallelInsert(index)
    \/ pc = "searching" /\ \E i \in Partitions(args.vectors) : SearchPartition(i)
    \/ CollectHnsw
    \/ Return

\* both crystallizers
NextCrystal == NextExact \/ NextHnsw

SpecHnsw == Init /\ [][NextHnsw]_vars
SpecCrystal == Init /\ [][NextCrystal]_vars

----------------------------------------------------------------------------
(* Properties of the Merkle hasher and the metrics *)

TokenReturned == pc = "returned" /\ fn = "get_token_hash_hex"
BondReturned == pc = "returned" /\ fn = "bond_id"
MetricsEnded == pc \in {"returned", "panicked"} /\ fn = "get_invariant_metrics"

\* C4: for u # v, bond_id(u, v, rel) differs from bond_id(v, u, rel), the
\* hash and its truncation taken as injective.
C4_SwapChangesBondId ==
    (BondReturned /\ args.u # args.v) => ret # bond_id(args.v, args.u, args.rel)

\* C5: two distinct byte strings never have the same token hash, Origin and
\* Dyad taken as an injective tagged hash.
C5_TokenHashInjective ==
    TokenReturned =>
        \A t \in TokenStrings : t # args.s => get_token_hash_hex(t) # ret

\* a string that has both a reordering and a truncation among the inputs
C5_Witness ==
    /\ TokenReturned
    /\ Len(args.s) = 2
    /\ args.s[1] # args.s[2]
    /\ <<args.s[2], args.s[1]>> \in TokenStrings
    /\ <<args.s[1]>> \in TokenStrings

\* the reference encoding of the claim: a right-nested cons-list of byte
\* trees, each byte tree nesting its bits from the MSB (at the root) down to
\* the LSB (deepest)
RefBit(bit) == IF bit = 1 THEN hash_dyad(hash_origin, hash_origin) ELSE hash_origin

RECURSIVE RefByteFrom(_, _)
RefByteFrom(b, k) ==
    IF k < 0 THEN hash_origin
    ELSE hash_dyad(RefBit((b % (2 ^ (k + 1))) \div (2 ^ k)), RefByteFrom(b, k - 1))

RefByte(b) == RefByteFrom(b, 7)

RECURSIVE RefString(_)
RefString(s) ==
    IF s = <<>> THEN hash_origin
    ELSE hash_dyad(RefByte(Head(s)), RefString(Tail(s)))

ByteValues == 0..255

\* C6: encode_string builds the right-nested cons-list whose outermost
\* wrapping is the first byte, and encode_byte nests the LSB deepest and the
\* MSB at the root.
C6_ConsListEncoding ==
    TokenReturned =>
        /\ ret = HexEncode(RefString(args.s))
        /\ \A b \in ByteValues : encode_byte(b) = RefByte(b)

\* a string of two different bytes, so that the nesting order shows
C6_Witness ==
    /\ TokenReturned
    /\ Len(args.s) = 2
    /\ args.s[1] # args.s[2]
    /\ ret = HexEncode(hash_dyad(RefByte(args.s[1]),
                                 hash_dyad(RefByte(args.s[2]), hash_origin)))

\* the exact (unbounded) values the claim names, one limb wider than a usize
ExactLimbs == UsizeLimbs + 1
Exact(a) == ZeroExt(a, ExactLimbs)

\* C7: in atomic mode a string of length L yields exactly (2L, L, L + 1, f(L)),
\* the same for every string of that length, with no wrap-around or abort.
C7_AtomicMetricsExact ==
    (MetricsEnded /\ args.atomic) =>
        /\ pc = "returned"
        /\ Exact(ret[1]) = LimbMulSmall(StrLen(args.s), 2)
        /\ Exact(ret[2]) = Exact(StrLen(args.s))
        /\ Exact(ret[3]) = LimbAddSmall(StrLen(args.s), 1)
        /\ \A t \in MetricStrings : \A build \in Builds :
              StrLen(t) = StrLen(args.s) =>
                  get_invariant_metrics(t, TRUE, build) = [status |-> "ok", val |-> ret]

\* measurements of the tree a digest stands for
IsLeaf(node) == node[2][1] = 0
LeftOf(node) == node[2][2]
RightOf(node) == node[2][3]
MaxOf(a, b) == IF a >= b THEN a ELSE b

RECURSIVE TreeDepth(_)
TreeDepth(node) ==
    IF IsLeaf(node) THEN 0
    ELSE 1 + MaxOf(TreeDepth(LeftOf(node)), TreeDepth(RightOf(node)))

RECURSIVE TreeLeaves(_)
TreeLeaves(node) ==
    IF IsLeaf(node) THEN 1
    ELSE TreeLeaves(LeftOf(node)) + TreeLeaves(RightOf(node))

\* C8: in bit-level mode depth and leaves are the maximum depth and the number
\* of Origin leaves of the tree encode_string builds for the string.
C8_BitMetricsDescribeTree ==
    (MetricsEnded /\ ~args.atomic /\ IsShort(args.s)) =>
        /\ pc = "returned"
        /\ ret[2] = ToLimbs(TreeDepth(encode_string(args.s.body)), U32Limbs)
        /\ ret[3] = ToLimbs(TreeLeaves(encode_string(args.s.body)), U32Limbs)

----------------------------------------------------------------------------
(* Properties of the crystallizers *)

ExactReturned == pc = "returned" /\ fn = "compute_correlations_parallel"
HnswReturned == pc = "returned" /\ fn = "crystallize_hnsw"

RetEdges == {ret[k] : k \in DOMAIN ret}

\* the dot product of the claims, summed from the last component down
RECURSIVE RefDotTo(_, _, _)
RefDotTo(a, b, k) == IF k = 0 THEN 0 ELSE RefDotTo(a, b, k - 1) + a[k] * b[k]
RefDot(vectors, i, j) == RefDotTo(At(vectors, i), At(vectors, j), Dim)

QualifyingPairs(vectors, threshold) ==
    {p \in Partitions(vectors) \X Partitions(vectors) :
        p[1] < p[2] /\ RefDot(vectors, p[1], p[2]) > threshold}

ExpectedEdges(vectors, threshold) ==
    {EdgeResult(p[1], p[2], RefDot(vectors, p[1], p[2])) :
        p \in QualifyingPairs(vectors, threshold)}

PairSimilarity(i, j) ==
    IF fn = "crystallize_hnsw"
    THEN 1 - DistCosine(At(args.vectors, i), At(args.vectors, j))
    ELSE RefDot(args.vectors, i, j)

\* C2: no edge of either crystallizer is a self-loop, every score is strictly
\* above the threshold, and no pair whose similarity equals the threshold is
\* emitted.
C2_NoSelfLoopStrictThreshold ==
    (ExactReturned \/ HnswReturned) =>
        \A k \in DOMAIN ret :
            /\ ret[k].source_idx # ret[k].target_idx
            /\ ret[k].score > args.threshold
            /\ PairSimilarity(ret[k].source_idx, ret[k].target_idx) # args.threshold

\* a search answered with the query's own point and with another point, the
\* first filtered out and the second emitted
C2_Witness ==
    /\ HnswReturned
    /\ \E i \in Partitions(args.vectors) :
          /\ \E k \in DOMAIN hnsw[i] : hnsw[i][k].d_id = i
          /\ \E k \in DOMAIN ret : ret[k].source_idx = i

\* C3: with top_k = 0 crystallize_hnsw returns no edge, whatever the
\* collection.
C3_TopKZeroNoEdges ==
    (HnswReturned /\ args.top_k = 0) => ret = <<>>

EdgeBefore(e, f) ==
    \/ e.source_idx < f.source_idx
    \/ e.source_idx = f.source_idx /\ e.target_idx < f.target_idx

Ascending(edges) ==
    \A a, b \in DOMAIN edges : a < b => EdgeBefore(edges[a], edges[b])

FinishRank(i) == CHOOSE k \in DOMAIN finishOrder : finishOrder[k] = i

\* two returned edges whose partitions ended in the opposite order of their
\* indices
LaterPartitionEndedFirst ==
    \E a, b \in DOMAIN ret :
        /\ ret[a].source_idx < ret[b].source_idx
        /\ FinishRank(ret[b].source_idx) < FinishRank(ret[a].source_idx)

\* C9 as claimed: the order of the returned sequence depends on the schedule,
\* so an execution whose partitions end out of index order returns the edges
\* in another order than the in-order execution does.
C9_OrderFollowsSchedule ==
    (ExactReturned /\ LaterPartitionEndedFirst) => ~Ascending(ret)

\* C9 as amended: the returned sequence is in ascending (source_idx,
\* target_idx) order under every schedule, so its order is deterministic.
C9_OrderDeterministic ==
    ExactReturned => Ascending(ret)

C9_Witness ==
    /\ ExactReturned
    /\ LaterPartitionEndedFirst

\* the sequential scan of all pairs i < j, from pair (i, j) on
RECURSIVE RefScanFrom(_, _, _, _)
RefScanFrom(vectors, threshold, i, j) ==
    IF i >= Len(vectors) THEN <<>>
    ELSE IF j >= Len(vectors) THEN RefScanFrom(vectors, threshold, i + 1, i + 2)
    ELSE (IF RefDot(vectors, i, j) > threshold
          THEN <<EdgeResult(i, j, RefDot(vectors, i, j))>> ELSE <<>>)
         \o RefScanFrom(vectors, threshold, i, j + 1)

SequentialScan(vectors, threshold) == RefScanFrom(vectors, threshold, 0, 1)

Occurrences(edges, e) == Cardinality({k \in DOMAIN edges : edges[k] = e})

SameMultiset(s, t) ==
    /\ Len(s) = Len(t)
    /\ \A k \in DOMAIN s : Occurrences(s, s[k]) = Occurrences(t, s[k])

\* C10: under every interleaving of the partitions the call returns only
\* after every partition has ended, with the multiset of edges of a
\* sequential scan, and the input collection is never changed.
C10_JoinedCompleteUnchanged ==
    /\ [](ExactReturned =>
            /\ Finished = Partitions(args.vectors)
            /\ SameMultiset(ret, SequentialScan(args.vectors, args.threshold)))
    /\ [][(fn = "compute_correlations_parallel" /\ pc # "returned") => args' = args]_vars

\* three partitions that ended in the reverse of their order, two of them
\* with edges
C10_Witness ==
    /\ ExactReturned
    /\ finishOrder = <<2, 1, 0>>
    /\ Len(ret) >= 2
    /\ ret[1].source_idx # ret[Len(ret)].source_idx

====
